---- MODULE Spec2Model ----
(***************************************************************************)
(* Kurento Media Server, server/main.cpp: configuration loading            *)
(* (load_config), the service worker (create_media_server_service), the    *)
(* signal handler (bt_sighandler) and the main event loop (main).          *)
(*                                                                         *)
(* Two threads (main, worker) and one signal handler frame per thread.     *)
(* A handler interrupts its thread: the thread's own steps wait until the  *)
(* handler has returned.                                                   *)
(***************************************************************************)
EXTENDS Integers, Sequences, FiniteSets, TLC

(***************************************************************************)
(* Bounds of the model.                                                    *)
(***************************************************************************)
\* signals delivered by the environment in one run
MaxSignals == 2
\* frames a backtrace() call returns (the array holds 35, main.cpp:282)
MaxTrace == 2
\* requests the worker dispatches in one run
MaxRequests == 1
\* calls of load_config in a row, where it is called again
MaxLoads == 2

(***************************************************************************)
(* Program constants.                                                      *)
(***************************************************************************)
SIGINT == 2
SIGKILL == 9
SIGSEGV == 11
SIGPIPE == 13
G_MAXUSHORT == 65535
G_MAXINT == 2147483647
\* media_config.hpp
MEDIA_SERVER_SERVICE_PORT == 9090
MEDIA_SERVER_ADDRESS == "localhost"

Threads == {"main", "worker"}

(***************************************************************************)
(* Key file values.  A value is text: a sequence of characters.            *)
(***************************************************************************)
Digits == <<"0", "1", "2", "3", "4", "5", "6", "7", "8", "9">>

IsDigit(c) == \E d \in 1..10 : Digits[d] = c

DigitVal(c) == (CHOOSE d \in 1..10 : Digits[d] = c) - 1

\* strtol's digit loop: the value of the leading digits of s added to acc;
\* -1 when there is no digit (seen = FALSE), when the digits are followed by a
\* character other than a space, or when the value leaves the range of a gint
RECURSIVE ParseDigits(_, _, _)
ParseDigits(s, acc, seen) ==
    IF s = <<>> \/ Head(s) = " " THEN (IF seen THEN acc ELSE -1)
    ELSE IF ~IsDigit(Head(s)) THEN -1
    ELSE IF acc > (G_MAXINT - DigitVal(Head(s))) \div 10 THEN -1
    ELSE ParseDigits(Tail(s), acc * 10 + DigitVal(Head(s)), TRUE)

\* Glib::KeyFile::get_integer on the text of a key: [ok, val]; ok = FALSE is
\* the KeyFileError it throws (empty value, non-numeric, out of range)
get_integer(text) ==
    LET neg  == text # <<>> /\ Head(text) = "-"
        body == IF text # <<>> /\ Head(text) \in {"-", "+"} THEN Tail(text) ELSE text
        mag  == ParseDigits(body, 0, FALSE)
    IN  IF mag = -1 THEN [ok |-> FALSE, val |-> 0]
        ELSE [ok |-> TRUE, val |-> IF neg THEN 0 - mag ELSE mag]

\* Glib::KeyFile::set_integer writes the decimal text of a non-negative number
RECURSIVE IntToText(_)
IntToText(n) ==
    IF n < 10 THEN <<Digits[n + 1]>>
    ELSE Append(IntToText(n \div 10), Digits[(n % 10) + 1])

\* a recognized key as read from the key file: has = FALSE when it is missing
NoAddr == [has |-> FALSE, v |-> ""]
NoPort == [has |-> FALSE, v |-> <<>>]
Addr(s) == [has |-> TRUE, v |-> s]
Port(t) == [has |-> TRUE, v |-> t]

\* media_config.hpp: the recognized group and its keys
SERVER_GROUP == "Server"
MEDIA_SERVER_ADDRESS_KEY == "serverAddress"
MEDIA_SERVER_SERVICE_PORT_KEY == "serverPort"
SDP_PATTERN_KEY == "sdpPattern"

(***************************************************************************)
(* The key file as text: a sequence of lines.  A line is a comment (or a   *)
(* blank line), a group header, a key with its value, or anything else.    *)
(***************************************************************************)
Comment(c) == [t |-> "c", k |-> "", v |-> <<c>>]
Blank == [t |-> "c", k |-> "", v |-> <<>>]
Group(g) == [t |-> "g", k |-> g, v |-> <<>>]
KeyLine(k, v) == [t |-> "kv", k |-> k, v |-> v]
Garbage == [t |-> "x", k |-> "", v |-> <<>>]

(***************************************************************************)
(* Glib::KeyFile: the groups in file order, the first one being the        *)
(* unnamed group that holds what precedes the first header.  A group is    *)
(* its name and its pairs in file order; a comment line is a pair with no  *)
(* key (k = "").                                                           *)
(***************************************************************************)
EmptyKeyFile == <<[name |-> "", pairs |-> <<>>]>>

\* the position of the group named g, 0 when there is none
GroupIndex(kf, g) ==
    IF \E i \in 1..Len(kf) : kf[i].name = g
    THEN CHOOSE i \in 1..Len(kf) : kf[i].name = g
    ELSE 0

\* the position of the last pair of key k, 0 when there is none
LastIndex(pairs, k) ==
    IF \E i \in 1..Len(pairs) : pairs[i].k = k
    THEN CHOOSE i \in 1..Len(pairs) :
             pairs[i].k = k /\ \A j \in (i + 1)..Len(pairs) : pairs[j].k # k
    ELSE 0

\* the value of a key starts at the first character after '=' that is not
\* white space
RECURSIVE StripLead(_)
StripLead(v) == IF v # <<>> /\ Head(v) = " " THEN StripLead(Tail(v)) ELSE v

\* the parser without KEY_FILE_KEEP_COMMENTS: comment lines are dropped
RECURSIVE ParseLines_drop_comments(_, _, _, _)
ParseLines_drop_comments(text, i, kf, cur) ==
    IF i > Len(text) THEN [ok |-> TRUE, kf |-> kf]
    ELSE LET l == text[i]
         IN  IF l.t = "x" \/ (l.t = "kv" /\ kf[cur].name = "")
             THEN [ok |-> FALSE, kf |-> EmptyKeyFile]
             ELSE IF l.t = "g"
             THEN IF GroupIndex(kf, l.k) > 0
                  THEN ParseLines_drop_comments(text, i + 1, kf, GroupIndex(kf, l.k))
                  ELSE ParseLines_drop_comments(text, i + 1,
                           Append(kf, [name |-> l.k, pairs |-> <<>>]), Len(kf) + 1)
             ELSE IF l.t = "c"
             THEN ParseLines_drop_comments(text, i + 1, kf, cur)
             ELSE ParseLines_drop_comments(text, i + 1,
                      [kf EXCEPT ![cur].pairs =
                          Append(@, [k |-> l.k, v |-> StripLead(l.v)])], cur)

\* load_from_file with KEY_FILE_KEEP_COMMENTS, line by line from line i: a
\* comment is kept in the current group, a header makes its group current
\* (a second header of a name continues the first), a key is added to the
\* current group.  The load fails on a line that is none of these and on a
\* key that precedes every header.
RECURSIVE ParseLines(_, _, _, _)
ParseLines(text, i, kf, cur) ==
    IF i > Len(text) THEN [ok |-> TRUE, kf |-> kf]
    ELSE LET l == text[i]
         IN  IF l.t = "x" \/ (l.t = "kv" /\ kf[cur].name = "")
             THEN [ok |-> FALSE, kf |-> EmptyKeyFile]
             ELSE IF l.t = "g"
             THEN IF GroupIndex(kf, l.k) > 0
                  THEN ParseLines(text, i + 1, kf, GroupIndex(kf, l.k))
                  ELSE ParseLines(text, i + 1,
                           Append(kf, [name |-> l.k, pairs |-> <<>>]), Len(kf) + 1)
             ELSE ParseLines(text, i + 1,
                      [kf EXCEPT ![cur].pairs =
                          Append(@, [k |-> l.k,
                                     v |-> IF l.t = "kv" THEN StripLead(l.v) ELSE l.v])],
                      cur)

\* Glib::KeyFile::load_from_file: [ok, kf]; ok = FALSE is the Glib::Error
load_from_file(f) ==
    IF f.state = "absent" THEN [ok |-> FALSE, kf |-> EmptyKeyFile]
    ELSE ParseLines(f.text, 1, EmptyKeyFile, 1)

\* the lookup behind get_string and get_integer: [has, v]; has = FALSE is the
\* KeyFileError for a missing group or key
get_value(kf, g, k) ==
    LET j == GroupIndex(kf, g)
        n == IF j = 0 THEN 0 ELSE LastIndex(kf[j].pairs, k)
    IN  IF n = 0 THEN [has |-> FALSE, v |-> <<>>]
        ELSE [has |-> TRUE, v |-> kf[j].pairs[n].v]

\* the store behind set_string and set_integer: the value of an existing key
\* is replaced in place, a new key is added at the end of its group, and a
\* missing group is added at the end of the key file
set_value(kf, g, k, v) ==
    LET kf1 == IF GroupIndex(kf, g) = 0
               THEN Append(kf, [name |-> g, pairs |-> <<>>]) ELSE kf
        j   == GroupIndex(kf1, g)
        n   == LastIndex(kf1[j].pairs, k)
    IN  IF n = 0
        THEN [kf1 EXCEPT ![j].pairs = Append(@, [k |-> k, v |-> v])]
        ELSE [kf1 EXCEPT ![j].pairs[n].v = v]

\* the lines of one group: its header, then its pairs
GroupLines(g) ==
    (IF g.name = "" THEN <<>> ELSE <<Group(g.name)>>) \o
    [n \in 1..Len(g.pairs) |->
        IF g.pairs[n].k = "" THEN [t |-> "c", k |-> "", v |-> g.pairs[n].v]
        ELSE KeyLine(g.pairs[n].k, g.pairs[n].v)]

\* a serializer that puts a blank line before every group
RECURSIVE to_data_always_separates(_, _, _)
to_data_always_separates(kf, i, out) ==
    IF i > Len(kf) THEN out
    ELSE to_data_always_separates(kf, i + 1, out \o <<Blank>> \o GroupLines(kf[i]))

\* Glib::KeyFile::to_data from group i on, out being the text so far: groups
\* are separated by at least one blank line
RECURSIVE to_data(_, _, _)
to_data(kf, i, out) ==
    IF i > Len(kf) THEN out
    ELSE to_data(kf, i + 1,
             out \o (IF out # <<>> /\ out[Len(out)] # Blank THEN <<Blank>> ELSE <<>>)
                 \o GroupLines(kf[i]))

(***************************************************************************)
(* The recognized keys of a key file                                       *)
(***************************************************************************)
\* an address is a single character string ("" is the empty value)
AddrText(s) == IF s = "" THEN <<>> ELSE <<s>>
AddrString(v) == IF v = <<>> THEN "" ELSE v[1]

\* The recognized keys of a key file.  sdp is the state of the file the sdp
\* pattern key names, "nokey" when the key is missing.
Keys(kf) ==
    LET a == get_value(kf, SERVER_GROUP, MEDIA_SERVER_ADDRESS_KEY)
        p == get_value(kf, SERVER_GROUP, MEDIA_SERVER_SERVICE_PORT_KEY)
        s == get_value(kf, SERVER_GROUP, SDP_PATTERN_KEY)
    IN  [addr |-> [has |-> a.has, v |-> AddrString(a.v)],
         port |-> p,
         sdp |-> IF ~s.has THEN "nokey"
                 ELSE IF s.v = <<>> THEN "unopenable" ELSE s.v[1]]

\* no recognized key
EmptyKeys == [addr |-> NoAddr, port |-> NoPort, sdp |-> "nokey"]

AddrInputs == {NoAddr, Addr(""), Addr("10.0.0.1")}

PortInputs ==
    {NoPort, Port(<<>>), Port(<<"a", "b">>), Port(<<"0">>), Port(<<"-", "5">>),
     Port(<<"1">>), Port(<<"8", "0", "8", "0">>), Port(<<"8", "0", "x">>),
     Port(<<"8", "0", " ", "8", "0">>),
     Port(<<"6", "5", "5", "3", "5">>), Port(<<"6", "5", "5", "3", "6">>),
     Port(<<"7", "0", "0", "0", "0">>),
     Port(<<"4", "2", "9", "4", "9", "6", "8", "3", "7", "6">>)}

SdpInputs == {"nokey", "unopenable", "empty", "bad", "good"}

\* the key lines of the recognized keys k
KeyLines(k) ==
    (IF k.addr.has THEN <<KeyLine(MEDIA_SERVER_ADDRESS_KEY, AddrText(k.addr.v))>>
     ELSE <<>>) \o
    (IF k.port.has THEN <<KeyLine(MEDIA_SERVER_SERVICE_PORT_KEY, k.port.v)>>
     ELSE <<>>) \o
    (IF k.sdp # "nokey" THEN <<KeyLine(SDP_PATTERN_KEY, <<k.sdp>>)>> ELSE <<>>)

\* The configuration file on disk: absent, or present with its text
FileText(text) == [state |-> "present", text |-> text]
FileAbsent == [state |-> "absent", text |-> <<>>]

\* a file of the server group and the keys k alone (no line when k has none)
FileOk(k) ==
    FileText(IF KeyLines(k) = <<>> THEN <<>> ELSE <<Group(SERVER_GROUP)>> \o KeyLines(k))

\* files that do not parse: a line that is no key file line, and a key before
\* the first group header
FileUnparsable == FileText(<<Group(SERVER_GROUP), Garbage>>)
FileNoGroup ==
    FileText(<<KeyLine(MEDIA_SERVER_SERVICE_PORT_KEY, <<"8", "0", "8", "0">>),
               Group(SERVER_GROUP),
               KeyLine(MEDIA_SERVER_ADDRESS_KEY, <<"10.0.0.1">>),
               KeyLine(SDP_PATTERN_KEY, <<"good">>)>>)

\* what reading the file gives: "absent", "unparsable", or "ok" with the
\* recognized keys
View(f) ==
    LET r == load_from_file(f)
    IN  [state |-> IF f.state = "absent" THEN "absent"
                   ELSE IF r.ok THEN "ok" ELSE "unparsable",
         keys |-> Keys(r.kf)]

AllFiles ==
    {FileAbsent, FileUnparsable, FileNoGroup} \cup
    {FileOk([addr |-> a, port |-> p, sdp |-> s]) :
        a \in AddrInputs, p \in PortInputs, s \in SdpInputs}

\* Files with more than the recognized keys: a comment before the first
\* header, an unrecognized key, a comment and a second group, written
\* without and with blank lines before the headers; and the server group
\* written in two parts
OTHER_GROUP == "Other"

Crowded(k) ==
    <<Comment("# c1"), Group(SERVER_GROUP)>> \o KeyLines(k) \o
    <<KeyLine("foo", <<"bar">>), Comment("# c2"), Group(OTHER_GROUP),
      KeyLine("k", <<"v">>)>>

Spaced(k) ==
    <<Comment("# c1"), Blank, Group(SERVER_GROUP)>> \o KeyLines(k) \o
    <<KeyLine("foo", <<"bar">>), Comment("# c2"), Blank, Group(OTHER_GROUP),
      KeyLine("k", <<"v">>)>>

Split(k) ==
    <<Group(SERVER_GROUP)>> \o KeyLines([k EXCEPT !.port = NoPort]) \o
    <<Blank, Group(OTHER_GROUP), KeyLine("k", <<"v">>), Blank, Group(SERVER_GROUP)>> \o
    KeyLines([addr |-> NoAddr, port |-> k.port, sdp |-> "nokey"])

ReloadKeys ==
    {[addr |-> a, port |-> p, sdp |-> s] :
        a \in AddrInputs,
        p \in {NoPort, Port(<<"0">>), Port(<<"8", "0", "8", "0">>),
                Port(<<" ", "8", "0", "8", "0">>)},
        s \in {"nokey", "empty", "good"}}

\* The files load_config is called on more than once
ReloadFiles ==
    {FileAbsent, FileUnparsable,
     FileText(<<Group(OTHER_GROUP), KeyLine("k", <<"v">>), Comment("# end")>>)} \cup
    {FileOk(k) : k \in ReloadKeys} \cup
    {FileText(Crowded(k)) : k \in ReloadKeys} \cup
    {FileText(Spaced(k)) : k \in ReloadKeys} \cup
    {FileText(Split(k)) : k \in ReloadKeys}

\* The files the whole-process specification starts from
RunFiles ==
    {FileAbsent, FileUnparsable,
     FileOk([addr |-> Addr("10.0.0.1"), port |-> Port(<<"8", "0", "8", "0">>),
             sdp |-> "good"]),
     FileOk([addr |-> NoAddr, port |-> Port(<<"0">>), sdp |-> "unopenable"])}

\* no call of load_config has returned yet
NoLoad == [addr |-> "", port |-> 0, file |-> FileAbsent]

\* heap: the signal interrupted its thread inside the allocator
NoHandler == [sig |-> 0, pc |-> "none", i |-> 0, n |-> 0, heap |-> FALSE]

VARIABLES
    file0,              \* the configuration file when the process started
    diskFile,           \* the configuration file on disk
    configFile,         \* static KeyFile configFile
    serverAddress,      \* static std::string serverAddress
    serverServicePort,  \* static gint serverServicePort
    sdpPattern,         \* static GstSDPMessage *sdpPattern: "NULL" or "pattern"
    sdpTried,           \* load_sdp_pattern was called
    sdpFault,           \* read_entire_file faulted
    loadCalls,          \* calls of load_config begun so far
    firstLoad,          \* address, port and file as the first call left them
    mainPc,             \* the main thread's position
    workerPc,           \* the worker thread's position
    installed,          \* sigaction has installed bt_sighandler
    hnd,                \* per thread, the running signal handler frame
    sigCount,           \* signals delivered so far
    sigSeen,            \* the signal numbers delivered so far
    exe,                \* getExecutableName's static exe: FALSE is NULL
    isRunning,          \* the loop's is_running flag
    ctxLock,            \* owner of the loop context's mutex, or "none"
    pendingIdle,        \* idle sources attached to the loop's context
    readyIdle,          \* idle sources collected for dispatch in this pass
    quitCalls,          \* calls of quit_loop
    readySent,          \* SIGCONT notifications sent to the parent
    bound,              \* the listening endpoint is bound
    bindFailed,         \* the bind failed
    listenPort,         \* the port the service was given
    dispatched,         \* requests dispatched by the worker
    procState,          \* "running" or "exited"
    exitStatus,         \* the status passed to exit
    exitIn              \* the signal whose handler called exit (0: main returned)

cfgVars == <<file0, diskFile, configFile, serverAddress, serverServicePort,
             sdpPattern, sdpTried, sdpFault, loadCalls, firstLoad>>
sigVars == <<installed, hnd, sigCount, sigSeen, exe>>
loopVars == <<isRunning, ctxLock, pendingIdle, readyIdle, quitCalls>>
svcVars == <<workerPc, readySent, bound, bindFailed, listenPort, dispatched>>
exitVars == <<procState, exitStatus, exitIn>>
vars == <<cfgVars, mainPc, sigVars, loopVars, svcVars, exitVars>>

InitFrom(files) ==
    /\ file0 \in files
    /\ diskFile = file0
    /\ configFile = EmptyKeyFile
    /\ serverAddress = ""
    /\ serverServicePort = 0
    /\ sdpPattern = "NULL"
    /\ sdpTried = FALSE
    /\ sdpFault = FALSE
    /\ loadCalls = 0
    /\ firstLoad = NoLoad
    /\ mainPc = "install"
    /\ workerPc = "none"
    /\ installed = FALSE
    /\ hnd = [t \in Threads |-> NoHandler]
    /\ sigCount = 0
    /\ sigSeen = {}
    /\ exe = FALSE
    /\ isRunning = TRUE
    /\ ctxLock = "none"
    /\ pendingIdle = 0
    /\ readyIdle = 0
    /\ quitCalls = 0
    /\ readySent = 0
    /\ bound = FALSE
    /\ bindFailed = FALSE
    /\ listenPort = 0
    /\ dispatched = 0
    /\ procState = "running"
    /\ exitStatus = 0
    /\ exitIn = 0

Init == InitFrom(RunFiles)

\* A thread takes its own steps only while the process runs and no signal
\* handler is running on it
CanStep(t) == procState = "running" /\ hnd[t].pc = "none"


\* exit (status), called while the handler of signal sig runs (0: from main)
Exit(status, sig) ==
    /\ procState' = "exited"
    /\ exitStatus' = status
    /\ exitIn' = sig

(***************************************************************************)
(* main, up to load_config                                                 *)
(***************************************************************************)
\* main.cpp:356-364: sigaction for SIGSEGV, SIGPIPE, SIGINT (and SIGKILL,
\* which the system refuses)
M_install ==
    /\ CanStep("main") /\ mainPc = "install"
    /\ installed' = TRUE
    /\ mainPc' = "load_open"
    /\ UNCHANGED <<cfgVars, hnd, sigCount, sigSeen, exe, loopVars, svcVars, exitVars>>

(***************************************************************************)
(* load_config                                                             *)
(***************************************************************************)
\* check_port with the lower bound off by one: port 0 passes
check_port_zero_passes(port) == port < 0 \/ port > G_MAXUSHORT

\* check_port throws for these ports
check_port(port) == port <= 0 \/ port > G_MAXUSHORT

\* set_default_server_config
set_default_server_config ==
    /\ serverAddress' = MEDIA_SERVER_ADDRESS
    /\ serverServicePort' = MEDIA_SERVER_SERVICE_PORT

\* load_open that does not create the missing file
load_open_no_create ==
    /\ CanStep("main") /\ mainPc = "load_open"
    /\ loadCalls' = loadCalls + 1
    /\ mainPc' = "load_parse"
    /\ UNCHANGED <<file0, diskFile, configFile, serverAddress, serverServicePort,
                   sdpPattern, sdpTried, sdpFault, firstLoad, sigVars, loopVars,
                   svcVars, exitVars>>

\* main.cpp:172-181: a missing file is created empty
load_open ==
    /\ CanStep("main") /\ mainPc = "load_open"
    /\ diskFile' = IF diskFile.state = "absent" THEN FileOk(EmptyKeys) ELSE diskFile
    /\ loadCalls' = loadCalls + 1
    /\ mainPc' = "load_parse"
    /\ UNCHANGED <<file0, configFile, serverAddress, serverServicePort, sdpPattern,
                   sdpTried, sdpFault, firstLoad, sigVars, loopVars, svcVars, exitVars>>

\* load_parse that goes on with the keys after a failed load_from_file
load_parse_falls_through ==
    /\ CanStep("main") /\ mainPc = "load_parse"
    /\ LET r == load_from_file(diskFile)
       IN  /\ configFile' = r.kf
           /\ mainPc' = "load_addr"
           /\ IF r.ok THEN UNCHANGED <<serverAddress, serverServicePort>>
              ELSE set_default_server_config
    /\ UNCHANGED <<file0, diskFile, sdpPattern, sdpTried, sdpFault, loadCalls,
                   firstLoad, sigVars, loopVars, svcVars, exitVars>>

\* main.cpp:183-200: load_from_file; on an error the defaults are set and
\* load_config returns.  An empty file loads as a key file with no keys.
load_parse ==
    /\ CanStep("main") /\ mainPc = "load_parse"
    /\ LET r == load_from_file(diskFile)
       IN  IF r.ok
           THEN /\ configFile' = r.kf
                /\ mainPc' = "load_addr"
                /\ UNCHANGED <<serverAddress, serverServicePort>>
           ELSE /\ set_default_server_config
                /\ mainPc' = "spawn"
                /\ UNCHANGED configFile
    /\ UNCHANGED <<file0, diskFile, sdpPattern, sdpTried, sdpFault, loadCalls,
                   firstLoad, sigVars, loopVars, svcVars, exitVars>>

\* main.cpp:202-211: get_string throws only when the key is missing
load_addr ==
    /\ CanStep("main") /\ mainPc = "load_addr"
    /\ LET a == get_value(configFile, SERVER_GROUP, MEDIA_SERVER_ADDRESS_KEY)
       IN  IF a.has
           THEN /\ serverAddress' = AddrString(a.v)
                /\ UNCHANGED configFile
           ELSE /\ configFile' = set_value(configFile, SERVER_GROUP,
                                      MEDIA_SERVER_ADDRESS_KEY,
                                      AddrText(MEDIA_SERVER_ADDRESS))
                /\ serverAddress' = MEDIA_SERVER_ADDRESS
    /\ mainPc' = "load_port"
    /\ UNCHANGED <<file0, diskFile, serverServicePort, sdpPattern, sdpTried,
                   sdpFault, loadCalls, firstLoad, sigVars, loopVars, svcVars,
                   exitVars>>

\* main.cpp:213-223: get_integer and check_port; a KeyFileError from either
\* sets the default in the key file and in memory
load_port ==
    /\ CanStep("main") /\ mainPc = "load_port"
    /\ LET p == get_value(configFile, SERVER_GROUP, MEDIA_SERVER_SERVICE_PORT_KEY)
           r == get_integer(p.v)
       IN  IF p.has /\ r.ok /\ ~check_port(r.val)
           THEN /\ serverServicePort' = r.val
                /\ UNCHANGED configFile
           ELSE /\ configFile' = set_value(configFile, SERVER_GROUP,
                                      MEDIA_SERVER_SERVICE_PORT_KEY,
                                      IntToText(MEDIA_SERVER_SERVICE_PORT))
                /\ serverServicePort' = MEDIA_SERVER_SERVICE_PORT
    /\ mainPc' = "load_sdp"
    /\ UNCHANGED <<file0, diskFile, serverAddress, sdpPattern, sdpTried, sdpFault,
                   loadCalls, firstLoad, sigVars, loopVars, svcVars, exitVars>>

\* read_entire_file and gst_sdp_message_parse_buffer on the file the sdp key
\* names.  fopen's result is not checked (fseek on NULL), and the buffer the
\* parser is given has no terminator: besides the outcome the content
\* dictates, the read may run on into a parse error or into a fault.
\*   "keyerror": get_string threw; "fail": load_sdp_pattern returns NULL;
\*   "pattern": it returns the pattern; "fault": SIGSEGV
load_sdp_pattern(s) ==
    CASE s = "nokey"      -> {"keyerror"}
      [] s = "unopenable" -> {"fault"}
      [] s = "empty"      -> {"fail"}
      [] s = "bad"        -> {"fail", "fault"}
      [] s = "good"       -> {"pattern", "fail", "fault"}

\* main.cpp:225-232
load_sdp ==
    /\ CanStep("main") /\ mainPc = "load_sdp"
    /\ sdpTried' = TRUE
    /\ \E out \in load_sdp_pattern(Keys(configFile).sdp) :
         IF out = "fault"
         THEN /\ sdpFault' = TRUE
              /\ hnd' = [hnd EXCEPT !["main"] =
                            [sig |-> SIGSEGV, pc |-> "classify", i |-> 0, n |-> 0,
                             heap |-> FALSE]]
              /\ sigSeen' = sigSeen \cup {SIGSEGV}
              /\ UNCHANGED <<sdpPattern, mainPc>>
         ELSE /\ sdpPattern' = IF out = "pattern" THEN "pattern"
                               ELSE IF out = "fail" THEN "NULL" ELSE sdpPattern
              /\ mainPc' = "load_save"
              /\ UNCHANGED <<sdpFault, hnd, sigSeen>>
    /\ UNCHANGED <<file0, diskFile, configFile, serverAddress, serverServicePort,
                   loadCalls, firstLoad, installed, sigCount, exe, loopVars,
                   svcVars, exitVars>>

\* main.cpp:234-238: the file is overwritten with configFile.to_data ()
load_save ==
    /\ CanStep("main") /\ mainPc = "load_save"
    /\ diskFile' = FileText(to_data(configFile, 1, <<>>))
    /\ mainPc' = "spawn"
    /\ UNCHANGED <<file0, configFile, serverAddress, serverServicePort, sdpPattern,
                   sdpTried, sdpFault, loadCalls, firstLoad, sigVars, loopVars, svcVars, exitVars>>

load_config == load_open \/ load_parse \/ load_addr \/ load_port \/ load_sdp \/ load_save

(***************************************************************************)
(* main: the worker thread and the event loop                              *)
(***************************************************************************)
\* main.cpp:372-373
M_spawn ==
    /\ CanStep("main") /\ mainPc = "spawn"
    /\ workerPc' = "construct"
    /\ mainPc' = "run"
    /\ UNCHANGED <<cfgVars, sigVars, loopVars, readySent, bound, bindFailed,
                   listenPort, dispatched, exitVars>>

\* main.cpp:375: loop->run () sets is_running and iterates while it is set
M_run ==
    /\ CanStep("main") /\ mainPc = "run"
    /\ isRunning' = TRUE
    /\ mainPc' = "iter"
    /\ UNCHANGED <<cfgVars, sigVars, ctxLock, pendingIdle, readyIdle, quitCalls,
                   svcVars, exitVars>>

\* one pass of the loop starts by locking the context, or the loop ends
M_iter ==
    /\ CanStep("main") /\ mainPc = "iter"
    /\ IF isRunning
       THEN /\ ctxLock = "none"
            /\ ctxLock' = "main"
            /\ mainPc' = "prepare"
       ELSE /\ mainPc' = "return"
            /\ UNCHANGED ctxLock
    /\ UNCHANGED <<cfgVars, sigVars, isRunning, pendingIdle, readyIdle, quitCalls,
                   svcVars, exitVars>>

\* prepare is done under the lock; the lock is released for the poll
M_prepare ==
    /\ CanStep("main") /\ mainPc = "prepare"
    /\ ctxLock' = "none"
    /\ mainPc' = "poll"
    /\ UNCHANGED <<cfgVars, sigVars, isRunning, pendingIdle, readyIdle, quitCalls,
                   svcVars, exitVars>>

\* the poll returns when a source is ready; the ready sources are collected
\* under the lock
M_poll ==
    /\ CanStep("main") /\ mainPc = "poll"
    /\ pendingIdle > 0
    /\ ctxLock = "none"
    /\ ctxLock' = "main"
    /\ readyIdle' = pendingIdle
    /\ pendingIdle' = 0
    /\ mainPc' = "dispatch"
    /\ UNCHANGED <<cfgVars, sigVars, isRunning, quitCalls, svcVars, exitVars>>

\* dispatch: the lock is released around each callback, and at the end
M_dispatch ==
    /\ CanStep("main") /\ mainPc = "dispatch"
    /\ ctxLock' = "none"
    /\ IF readyIdle > 0
       THEN /\ readyIdle' = readyIdle - 1
            /\ mainPc' = "callback"
       ELSE /\ mainPc' = "iter"
            /\ UNCHANGED readyIdle
    /\ UNCHANGED <<cfgVars, sigVars, isRunning, pendingIdle, quitCalls, svcVars,
                   exitVars>>

\* main.cpp:271-277: quit_loop, the idle source's callback; it returns FALSE,
\* the source is destroyed and dispatch takes the lock again
quit_loop ==
    /\ CanStep("main") /\ mainPc = "callback"
    /\ ctxLock = "none"
    /\ isRunning' = FALSE
    /\ quitCalls' = quitCalls + 1
    /\ ctxLock' = "main"
    /\ mainPc' = "dispatch"
    /\ UNCHANGED <<cfgVars, sigVars, pendingIdle, readyIdle, svcVars, exitVars>>

\* main.cpp:377: return 0
M_return ==
    /\ CanStep("main") /\ mainPc = "return"
    /\ Exit(0, 0)
    /\ mainPc' = "done"
    /\ UNCHANGED <<cfgVars, sigVars, loopVars, svcVars>>

main_loop == M_spawn \/ M_run \/ M_iter \/ M_prepare \/ M_poll \/ M_dispatch
             \/ quit_loop \/ M_return


(***************************************************************************)
(* create_media_server_service, on the worker thread                       *)
(***************************************************************************)
\* main.cpp:81-82: the port given to the server
ServicePort == MEDIA_SERVER_SERVICE_PORT

\* W_construct that stores the port it resolved in the global
W_construct_stores_port ==
    /\ CanStep("worker") /\ workerPc = "construct"
    /\ listenPort' = ServicePort
    /\ serverServicePort' = ServicePort
    /\ workerPc' = "notify"
    /\ UNCHANGED <<file0, diskFile, configFile, serverAddress, sdpPattern, sdpTried,
                   sdpFault, loadCalls, firstLoad, mainPc, sigVars, loopVars,
                   readySent, bound, bindFailed, dispatched, exitVars>>

\* main.cpp:83-95: handler, processor, thread manager and the server object;
\* the constructor of TNonblockingServer stores the port and binds nothing
W_construct ==
    /\ CanStep("worker") /\ workerPc = "construct"
    /\ listenPort' = ServicePort
    /\ workerPc' = "notify"
    /\ UNCHANGED <<cfgVars, mainPc, sigVars, loopVars, readySent, bound, bindFailed,
                   dispatched, exitVars>>

\* W_notify that sends nothing
W_notify_skipped ==
    /\ CanStep("worker") /\ workerPc = "notify"
    /\ workerPc' = "serve"
    /\ UNCHANGED <<cfgVars, mainPc, sigVars, loopVars, readySent, bound, bindFailed,
                   listenPort, dispatched, exitVars>>

\* main.cpp:96-97: kill (getppid(), SIGCONT)
W_notify ==
    /\ CanStep("worker") /\ workerPc = "notify"
    /\ readySent' = readySent + 1
    /\ workerPc' = "serve"
    /\ UNCHANGED <<cfgVars, mainPc, sigVars, loopVars, bound, bindFailed, listenPort,
                   dispatched, exitVars>>

\* main.cpp:98: server.serve () creates the listening socket and binds it;
\* a failed bind throws out of the thread function and the thread ends
W_serve ==
    /\ CanStep("worker") /\ workerPc = "serve"
    /\ \E ok \in BOOLEAN :
         /\ bound' = ok
         /\ bindFailed' = ~ok
         /\ workerPc' = IF ok THEN "serving" ELSE "done"
    /\ UNCHANGED <<cfgVars, mainPc, sigVars, loopVars, readySent, listenPort,
                   dispatched, exitVars>>

\* serve's accept loop dispatches a request
W_dispatch ==
    /\ CanStep("worker") /\ workerPc = "serving"
    /\ dispatched < MaxRequests
    /\ dispatched' = dispatched + 1
    /\ UNCHANGED <<cfgVars, mainPc, sigVars, loopVars, workerPc, readySent, bound,
                   bindFailed, listenPort, exitVars>>

\* main.cpp:98-100: serve returns and the thread exits
W_stopped ==
    /\ CanStep("worker") /\ workerPc = "serving"
    /\ workerPc' = "done"
    /\ UNCHANGED <<cfgVars, mainPc, sigVars, loopVars, readySent, bound, bindFailed,
                   listenPort, dispatched, exitVars>>

create_media_server_service ==
    W_construct \/ W_notify \/ W_serve \/ W_dispatch \/ W_stopped

(***************************************************************************)
(* bt_sighandler                                                           *)
(***************************************************************************)
Alive(t) ==
    IF t = "main" THEN mainPc # "done" ELSE workerPc \notin {"none", "done"}

\* the signals bt_sighandler is installed for (SIGKILL cannot be caught)
Handled == {SIGSEGV, SIGPIPE, SIGINT}

\* thread t is in code that allocates: load_config (strings, the key file,
\* the sdp buffer) and Glib::Thread::create on main, the construction of the
\* server and the serving of requests on the worker
Allocating(t) ==
    IF t = "main"
    THEN mainPc \in {"load_open", "load_parse", "load_addr", "load_port", "load_sdp",
                     "load_save", "spawn"}
    ELSE workerPc \in {"construct", "serving"}

\* a signal is delivered to thread t: bt_sighandler starts on it.  The signal
\* arrives at any instruction: in code that allocates, inside the allocator
\* or outside it.
Deliver(t, sig) ==
    /\ procState = "running" /\ installed /\ Alive(t)
    /\ hnd[t].pc = "none"
    /\ sigCount < MaxSignals
    /\ sigCount' = sigCount + 1
    /\ sigSeen' = sigSeen \cup {sig}
    /\ \E heap \in (IF Allocating(t) THEN BOOLEAN ELSE {FALSE}) :
         hnd' = [hnd EXCEPT ![t] = [sig |-> sig, pc |-> "classify", i |-> 0,
                                    n |-> 0, heap |-> heap]]
    /\ UNCHANGED <<cfgVars, mainPc, installed, exe, loopVars, svcVars, exitVars>>

\* main.cpp:289-302: SIGKILL and SIGINT go on to create an idle source for
\* quit_loop; the other signals print and go on to the backtrace
H_classify(t) ==
    /\ procState = "running" /\ hnd[t].pc = "classify"
    /\ hnd' = [hnd EXCEPT ![t].pc =
                 IF hnd[t].sig = SIGSEGV THEN "backtrace"
                 ELSE IF hnd[t].sig \in {SIGKILL, SIGINT} THEN "create"
                 ELSE "backtrace"]
    /\ UNCHANGED <<cfgVars, mainPc, installed, sigCount, sigSeen, exe, loopVars,
                   svcVars, exitVars>>

\* main.cpp:296-297: Glib::IdleSource::create and connect allocate the source
\* and the slot.  The allocator is not reentrant: when the signal interrupted
\* the thread inside it, the allocation waits for a lock its own thread holds.
H_create(t) ==
    /\ procState = "running" /\ hnd[t].pc = "create"
    /\ ~hnd[t].heap
    /\ hnd' = [hnd EXCEPT ![t].pc = "attach"]
    /\ UNCHANGED <<cfgVars, mainPc, installed, sigCount, sigSeen, exe, loopVars,
                   svcVars, exitVars>>

\* main.cpp:298-299: idle_source->attach locks the loop context's mutex, adds
\* the source and unlocks; the handler returns
H_attach(t) ==
    /\ procState = "running" /\ hnd[t].pc = "attach"
    /\ ctxLock = "none"
    /\ pendingIdle' = pendingIdle + 1
    /\ hnd' = [hnd EXCEPT ![t] = NoHandler]
    /\ UNCHANGED <<cfgVars, mainPc, installed, sigCount, sigSeen, exe, isRunning,
                   ctxLock, readyIdle, quitCalls, svcVars, exitVars>>

\* main.cpp:304-309: backtrace returns trace_size frames, and
\* backtrace_symbols allocates the array of their names (it waits, as
\* H_create does, when the signal interrupted the allocator)
H_backtrace(t) ==
    /\ procState = "running" /\ hnd[t].pc = "backtrace"
    /\ ~hnd[t].heap
    /\ \E size \in 0..MaxTrace :
         hnd' = [hnd EXCEPT ![t] = [sig |-> hnd[t].sig, pc |-> "frames",
                                    i |-> 1, n |-> size, heap |-> FALSE]]
    /\ UNCHANGED <<cfgVars, mainPc, installed, sigCount, sigSeen, exe, loopVars,
                   svcVars, exitVars>>

\* main.cpp:241-269 and 311-327: one frame of the loop.  A frame whose symbol
\* names no module takes getExecutableName, which reads the link of
\* /proc/<pid>/exe on its first call and calls exit (1) when that fails.
H_frame(t) ==
    /\ procState = "running" /\ hnd[t].pc = "frames"
    /\ hnd[t].i < hnd[t].n
    /\ \E module \in BOOLEAN, link \in BOOLEAN :
         IF module \/ exe \/ link
         THEN /\ exe' = IF module THEN exe ELSE TRUE
              /\ hnd' = [hnd EXCEPT ![t].i = hnd[t].i + 1]
              /\ UNCHANGED exitVars
         ELSE /\ Exit(1, hnd[t].sig)
              /\ UNCHANGED <<exe, hnd>>
    /\ UNCHANGED <<cfgVars, mainPc, installed, sigCount, sigSeen, loopVars, svcVars>>

\* main.cpp:329-333: SIGPIPE returns, every other signal calls exit (sig)
H_finish(t) ==
    /\ procState = "running" /\ hnd[t].pc = "frames"
    /\ hnd[t].i >= hnd[t].n
    /\ IF hnd[t].sig = SIGPIPE
       THEN /\ hnd' = [hnd EXCEPT ![t] = NoHandler]
            /\ UNCHANGED exitVars
       ELSE /\ Exit(hnd[t].sig, hnd[t].sig)
            /\ UNCHANGED hnd
    /\ UNCHANGED <<cfgVars, mainPc, installed, sigCount, sigSeen, exe, loopVars,
                   svcVars>>

bt_sighandler(t) ==
    H_classify(t) \/ H_create(t) \/ H_attach(t) \/ H_backtrace(t) \/ H_frame(t)
    \/ H_finish(t)

Signal(t) == \E sig \in Handled : Deliver(t, sig)

(***************************************************************************)
(* Specifications                                                          *)
(***************************************************************************)
MainStep == M_install \/ load_config \/ main_loop

WorkerStep == create_media_server_service

HandlerStep == \E t \in Threads : bt_sighandler(t)

SignalStep == \E t \in Threads : Signal(t)

Next == MainStep \/ WorkerStep \/ HandlerStep \/ SignalStep

\* the whole process, from a few configuration files
Spec == Init /\ [][Next]_vars

\* the threads are scheduled fairly: a thread, or a handler, that can take a
\* step does take it
FairSpec == Spec /\ WF_vars(MainStep) /\ WF_vars(WorkerStep) /\ WF_vars(HandlerStep)

\* load_config on every configuration file, with the signals that reach the
\* main thread meanwhile
LoadInit == InitFrom(AllFiles)

LoadNext == M_install \/ load_config \/ bt_sighandler("main") \/ Signal("main")

LoadSpec == LoadInit /\ [][LoadNext]_vars

\* load_config called again once it has returned, with nothing else touching
\* the file in between; what the first call left is kept for comparison
Reload ==
    /\ CanStep("main") /\ mainPc = "spawn" /\ loadCalls < MaxLoads
    /\ firstLoad' = IF loadCalls = 1
                    THEN [addr |-> serverAddress, port |-> serverServicePort,
                          file |-> diskFile]
                    ELSE firstLoad
    /\ mainPc' = "load_open"
    /\ UNCHANGED <<file0, diskFile, configFile, serverAddress, serverServicePort,
                   sdpPattern, sdpTried, sdpFault, loadCalls, sigVars, loopVars,
                   svcVars, exitVars>>

ReloadInit == InitFrom(ReloadFiles)

ReloadNext ==
    M_install \/ load_config \/ Reload \/ bt_sighandler("main") \/ Signal("main")

ReloadSpec == ReloadInit /\ [][ReloadNext]_vars


(***************************************************************************)
(* Properties                                                              *)
(***************************************************************************)
\* load_config has returned to main
LoadReturned ==
    mainPc \notin {"install", "load_open", "load_parse", "load_addr", "load_port",
                   "load_sdp", "load_save"}

\* the worker has constructed its server
ServerConstructed == workerPc \in {"notify", "serve", "serving", "done"}

\* the port key of the file is a decimal integer within 1..65535
FilePortValid(f) ==
    /\ View(f).state = "ok" /\ View(f).keys.port.has
    /\ get_integer(View(f).keys.port.v).ok
    /\ get_integer(View(f).keys.port.v).val \in 1..G_MAXUSHORT

\* the port key of the file is present with a value that is not such an integer
FilePortInvalid(f) ==
    /\ View(f).state = "ok" /\ View(f).keys.port.has
    /\ ~FilePortValid(f)

DefaultKeys ==
    [addr |-> Addr(MEDIA_SERVER_ADDRESS),
     port |-> Port(<<"9", "0", "9", "0">>),
     sdp |-> "nokey"]

\* C1: the readiness notification is sent only after the listening endpoint
\* is bound, and never when the bind fails.
C1_ReadyOnlyAfterBind ==
    /\ readySent > 0 => bound
    /\ bindFailed => readySent = 0

\* C2: the readiness notification is sent at most once, it has been sent once
\* whenever the endpoint is bound, and it has been sent before any request is
\* dispatched.
C2_ReadyExactlyOnce ==
    /\ readySent <= 1
    /\ bound => readySent = 1
    /\ dispatched > 0 => readySent = 1

C2_Witness == bound /\ dispatched > 0 /\ readySent = 1 /\ procState = "exited"

\* C3: in a run whose only signals are interrupts, a delivered interrupt leads
\* to the process exiting with status 0 (under fair scheduling).
C3_InterruptLeadsToExit0 ==
    [](SIGINT \in sigSeen =>
         <>((procState = "exited" /\ exitStatus = 0) \/ sigSeen # {SIGINT}))

\* C4: the handler of SIGPIPE never terminates the process.
C4_SigpipeNeverTerminates == ~(procState = "exited" /\ exitIn = SIGPIPE)

\* C5: when the handler of SIGSEGV terminates the process, the exit status is
\* the signal number.
C5_FatalExitStatusIsSignal ==
    (procState = "exited" /\ exitIn = SIGSEGV) => exitStatus = SIGSEGV

\* C6: after load_config has returned the port in memory is within 1..65535,
\* it is the file's value or the compiled default, and it is the file's value
\* whenever that is a valid port.
C6_PortValidAfterLoad ==
    LoadReturned =>
        /\ serverServicePort \in 1..G_MAXUSHORT
        /\ \/ serverServicePort = MEDIA_SERVER_SERVICE_PORT
           \/ /\ View(file0).state = "ok" /\ View(file0).keys.port.has
              /\ get_integer(View(file0).keys.port.v) = [ok |-> TRUE, val |-> serverServicePort]
        /\ FilePortValid(file0) =>
               serverServicePort = get_integer(View(file0).keys.port.v).val

C6_Witness ==
    /\ LoadReturned
    /\ View(file0).state = "ok"
    /\ View(file0).keys.port = Port(<<"6", "5", "5", "3", "6">>)
    /\ serverServicePort = MEDIA_SERVER_SERVICE_PORT

\* C7: the port the service listens on is the port held in memory after
\* load_config.
C7_ListenPortIsConfigPort ==
    ServerConstructed => listenPort = serverServicePort

\* C8: when the file did not exist, after load_config has returned the file
\* exists and holds the compiled default address and port, and the address and
\* port in memory are the compiled defaults.
C8_MissingFileGetsDefaults ==
    (View(file0).state = "absent" /\ LoadReturned) =>
        /\ diskFile = FileOk(DefaultKeys)
        /\ get_integer(View(diskFile).keys.port.v) =
               [ok |-> TRUE, val |-> MEDIA_SERVER_SERVICE_PORT]
        /\ serverAddress = MEDIA_SERVER_ADDRESS
        /\ serverServicePort = MEDIA_SERVER_SERVICE_PORT

C8_Witness ==
    View(file0).state = "absent" /\ LoadReturned /\ View(diskFile).state = "ok"

\* load_config is over: it has returned, or the process ended inside it
LoadEnded == LoadReturned \/ procState = "exited"

\* C9: for a parseable file whose port value is not an integer within
\* 1..65535, and with no signal from outside, once load_config is over the
\* port in memory is the compiled default, the file holds the default port,
\* and the address follows from the address key alone: a non-empty address is
\* kept in memory and in the file, a missing one is replaced by the default
\* in both.
C9_InvalidPortSubstituted ==
    (FilePortInvalid(file0) /\ sigCount = 0 /\ LoadEnded) =>
        /\ serverServicePort = MEDIA_SERVER_SERVICE_PORT
        /\ View(diskFile).state = "ok"
        /\ View(diskFile).keys.port.has
        /\ get_integer(View(diskFile).keys.port.v) =
               [ok |-> TRUE, val |-> MEDIA_SERVER_SERVICE_PORT]
        /\ (View(file0).keys.addr.has /\ View(file0).keys.addr.v # "") =>
               /\ serverAddress = View(file0).keys.addr.v
               /\ View(diskFile).keys.addr = View(file0).keys.addr
        /\ ~View(file0).keys.addr.has =>
               /\ serverAddress = MEDIA_SERVER_ADDRESS
               /\ View(diskFile).keys.addr = Addr(MEDIA_SERVER_ADDRESS)

\* C10: when the sdp pattern file cannot be opened or cannot be parsed, loading
\* it does not fault: load_config goes on to return and the process is not
\* terminated.
C10_SdpFailureRecoverable ==
    (sdpTried /\ Keys(configFile).sdp \in {"unopenable", "empty", "bad"}) => ~sdpFault

\* every recognized key of the file is present and valid: a non-empty address,
\* a port within 1..65535, and an sdp pattern key that names a pattern file
RecognizedKeysValid(f) ==
    /\ View(f).state = "ok"
    /\ View(f).keys.addr.has /\ View(f).keys.addr.v # ""
    /\ FilePortValid(f)
    /\ View(f).keys.sdp = "good"

\* the text is laid out as the key file is written: a blank line before every
\* header but one on the first line, each header once, and no white space
\* before a value
WrittenLayout(text) ==
    /\ \A i \in 2..Len(text) : text[i].t = "g" => text[i - 1] = Blank
    /\ \A i, j \in 1..Len(text) :
           (text[i].t = "g" /\ text[j].t = "g" /\ text[i].k = text[j].k) => i = j
    /\ \A i \in 1..Len(text) :
           text[i].t = "kv" => (text[i].v = <<>> \/ Head(text[i].v) # " ")

\* load_config has been called again and that call has returned
LoadedAgain == loadCalls >= 2 /\ LoadReturned

\* C11 as claimed: for a file whose recognized keys are all valid, calling
\* load_config again gives the same address and port, and the file content
\* after the later call equals the content after the first call and equals
\* the original content.
C11_ReloadKeepsOriginalContent ==
    (RecognizedKeysValid(file0) /\ LoadedAgain) =>
        /\ serverAddress = firstLoad.addr
        /\ serverServicePort = firstLoad.port
        /\ diskFile = firstLoad.file
        /\ firstLoad.file = file0

\* C11: for a file whose recognized keys are all valid, calling load_config
\* again gives the same address and port as the first call, and the file
\* content after the later call equals the content after the first call; the
\* first call leaves the original content as it was when the original is laid
\* out as the key file is written.
C11_ReloadIdempotent ==
    (RecognizedKeysValid(file0) /\ LoadedAgain) =>
        /\ serverAddress = firstLoad.addr
        /\ serverServicePort = firstLoad.port
        /\ diskFile = firstLoad.file
        /\ WrittenLayout(file0.text) => firstLoad.file = file0

C11_Witness ==
    /\ RecognizedKeysValid(file0) /\ LoadedAgain
    /\ diskFile = firstLoad.file
    /\ firstLoad.file # file0
    /\ serverServicePort = 8080

\* the group a line of the text belongs to: the name of the last header at or
\* before it, "" before the first header
GroupAt(text, i) ==
    IF \E j \in 1..i : text[j].t = "g"
    THEN text[CHOOSE j \in 1..i :
                  text[j].t = "g" /\ \A h \in (j + 1)..i : text[h].t # "g"].k
    ELSE ""

\* the groups, the comments (with their group) and the keys other than the
\* address key and the port key (with their group and value) that a text holds
GroupsOf(text) == {text[i].k : i \in {j \in 1..Len(text) : text[j].t = "g"}}

CommentsOf(text) ==
    {<<GroupAt(text, i), text[i].v>> :
        i \in {j \in 1..Len(text) : text[j].t = "c" /\ text[j].v # <<>>}}

OtherKeysOf(text) ==
    {<<GroupAt(text, i), text[i].k, StripLead(text[i].v)>> :
        i \in {j \in 1..Len(text) :
                 /\ text[j].t = "kv"
                 /\ ~(/\ GroupAt(text, j) = SERVER_GROUP
                      /\ text[j].k \in {MEDIA_SERVER_ADDRESS_KEY,
                                        MEDIA_SERVER_SERVICE_PORT_KEY})}}

\* C12: for a parseable file, every group, every comment and every key other
\* than the address key and the port key that the file held before
\* load_config is in the file before the load rewrites it and after, in the
\* same group and with the same value, also when the load has substituted a
\* default.
C12_UnrecognizedContentKept ==
    View(file0).state = "ok" =>
        /\ GroupsOf(file0.text) \subseteq GroupsOf(diskFile.text)
        /\ CommentsOf(file0.text) \subseteq CommentsOf(diskFile.text)
        /\ OtherKeysOf(file0.text) \subseteq OtherKeysOf(diskFile.text)

C12_Witness ==
    /\ View(file0).state = "ok" /\ LoadReturned
    /\ ~View(file0).keys.addr.has
    /\ FilePortInvalid(file0)
    /\ View(diskFile).keys.addr = Addr(MEDIA_SERVER_ADDRESS)
    /\ <<SERVER_GROUP, "foo", <<"bar">>>> \in OtherKeysOf(diskFile.text)
    /\ <<SERVER_GROUP, <<"# c2">>>> \in CommentsOf(file0.text)
    /\ OTHER_GROUP \in GroupsOf(file0.text)
    /\ diskFile # file0

\* C13: the handler of SIGINT takes no lock that normal-flow code holds: it is
\* never at the point of locking the loop context's mutex while the thread it
\* interrupted holds that mutex.
C13_InterruptHandlerNeverBlocked ==
    \A t \in Threads :
        (hnd[t].sig = SIGINT /\ hnd[t].pc = "attach") => ctxLock # t

\* C14: when the file exists and does not parse, once load_config has returned
\* the address and the port are the compiled defaults, load_sdp_pattern has
\* not been called, the sdp pattern is absent, and the file is as it was.
C14_UnparsableGivesDefaultsOnly ==
    (View(file0).state = "unparsable" /\ LoadReturned) =>
        /\ serverAddress = MEDIA_SERVER_ADDRESS
        /\ serverServicePort = MEDIA_SERVER_SERVICE_PORT
        /\ ~sdpTried
        /\ sdpPattern = "NULL"
        /\ diskFile = file0

C14_Witness ==
    /\ file0 = FileNoGroup /\ LoadReturned
    /\ serverServicePort = MEDIA_SERVER_SERVICE_PORT
    /\ serverAddress = MEDIA_SERVER_ADDRESS
    /\ ~sdpTried

\* C15: the handler of SIGPIPE captures no stack frames (and so prints no
\* frame line and runs no external command).
C15_SigpipeOnlyLogs ==
    \A t \in Threads : hnd[t].sig = SIGPIPE => hnd[t].pc # "frames"

\* C16: for a parseable file, once load_config has returned the address in
\* memory is not empty: a missing key or an empty value is replaced by the
\* compiled default in memory and in the file, and a non-empty value is kept.
C16_AddressNonEmptyAfterLoad ==
    (View(file0).state = "ok" /\ LoadReturned) =>
        /\ serverAddress # ""
        /\ (~View(file0).keys.addr.has \/ View(file0).keys.addr.v = "") =>
               /\ serverAddress = MEDIA_SERVER_ADDRESS
               /\ View(diskFile).keys.addr = Addr(MEDIA_SERVER_ADDRESS)
        /\ (View(file0).keys.addr.has /\ View(file0).keys.addr.v # "") =>
               serverAddress = View(file0).keys.addr.v

\* C17: however many interrupts are delivered, at most one loop-termination
\* task is pending or being dispatched, and quit_loop runs at most once.
C17_ShutdownRequestSingleShot ==
    /\ pendingIdle + readyIdle <= 1
    /\ quitCalls <= 1

\* C18: once serve has returned on its own and the worker thread has ended, a
\* shutdown request exists: a loop-termination task is pending, is being
\* dispatched, or has run.
C18_WorkerStopRequestsShutdown ==
    (workerPc = "done" /\ bound) => pendingIdle + readyIdle + quitCalls > 0

\* main is inside load_config and no signal handler is running on it
InLoadConfig ==
    /\ mainPc \in {"load_open", "load_parse", "load_addr", "load_port", "load_sdp",
                   "load_save"}
    /\ hnd["main"].pc = "none"

\* C19: the address, the port and the sdp pattern change only in a step of
\* load_config on the main thread; the worker exists only once load_config
\* has returned; and once it has returned no step changes them.
C19_ConfigWrittenOnlyByLoad ==
    [][/\ <<serverAddress, serverServicePort, sdpPattern>>' #
              <<serverAddress, serverServicePort, sdpPattern>> => InLoadConfig
       /\ workerPc' # "none" => LoadReturned
       /\ LoadReturned =>
              <<serverAddress, serverServicePort, sdpPattern>>' =
                  <<serverAddress, serverServicePort, sdpPattern>>]_vars

C19_Witness ==
    /\ serverAddress = "10.0.0.1" /\ serverServicePort = 8080
    /\ sdpPattern = "pattern"
    /\ workerPc = "done" /\ dispatched > 0
    /\ quitCalls > 0 /\ sigCount > 0
    /\ procState = "exited"

\* main has installed the handlers and has not yet entered loop->run ()
BeforeLoop ==
    mainPc \in {"load_open", "load_parse", "load_addr", "load_port", "load_sdp",
                "load_save", "spawn", "run"}

\* C20: the handlers are installed before load_config and before the loop,
\* and an interrupt delivered before the loop runs, and followed by no other
\* signal, leads to the process exiting with status 0 (under fair scheduling).
C20_EarlyInterruptNotLost ==
    /\ [](mainPc # "install" => installed)
    /\ [](BeforeLoop /\ sigSeen = {SIGINT} /\ sigCount = 1 =>
            <>(\/ procState = "exited" /\ exitStatus = 0
               \/ sigSeen # {SIGINT}
               \/ sigCount > 1))

====
